---- MODULE Spec2Model ----
(***************************************************************************)
(* Model of the adaptive noise-cancellation core of the repository:       *)
(*   src/server/config.py      the configuration constants                *)
(*   src/server/anc_system.py  AdaptiveANC (the adaptive filter)          *)
(*   src/server/anc_server.py  on_message (the MQTT shim and the codec)   *)
(*   src/ml_service/src/mqtt_client.py  MQTTClient (shutdown, reconnect)  *)
(*                                                                         *)
(* Real numbers (numpy float32/float64) are modelled in fixed point: a    *)
(* value v stands for v / SCALE, and every product or quotient is          *)
(* truncated toward zero to that resolution.  numpy exceptions are        *)
(* modelled as the outcome "raised" of the operation that raises, with    *)
(* the state as the statements executed before the raise left it.         *)
(***************************************************************************)
EXTENDS Integers, Sequences, FiniteSets, TLC

VARIABLES
    cfg,                \* the constants of config.py bound at startup
    w,                  \* AdaptiveANC.w
    x_buffer,           \* AdaptiveANC.x_buffer
    error_history,      \* AdaptiveANC.error_history
    packet_count,       \* AdaptiveANC.packet_count
    ref_chunk_buffer,   \* anc_server.ref_chunk_buffer (the last reference)
    error_chunk_buffer, \* anc_server.error_chunk_buffer
    published,          \* number of payloads published to TOPIC_SPEAKER
    speaker,            \* the payload published last: <<>> or <<payload>>
    handled,            \* number of messages on_message has handled
    last,               \* what on_message did with the last message
    seen,               \* what the broker has delivered so far
    client,             \* the paho client of main: session and network loop
    service             \* ml_service's MQTTClient and the two threads using it

vars == <<cfg, w, x_buffer, error_history, packet_count, ref_chunk_buffer,
          error_chunk_buffer, published, speaker, handled, last, seen,
          client, service>>

filterState == <<w, x_buffer, error_history, packet_count>>

----------------------------------------------------------------------------
(* Bounds of the model *)

\* on_message is run for at most this many messages
MaxMsgs == 3

\* on_message is run for at most this many messages of a sustained stream
MaxRunMsgs == 24

\* on_message is run for at most this many messages of a long stream
MaxLongMsgs == 205

\* process_chunk is called directly at most this many times
MaxCalls == 3

\* messages received from the broker and waiting for on_message: at most
\* this many
MaxInbox == 2

\* the connection to the broker is lost at most this many times
MaxDrops == 1

\* the ML service loses its connection at most this many times
MaxServiceDrops == 2

----------------------------------------------------------------------------
(* Program constants *)

\* fixed-point resolution of the modelled reals: v stands for v / SCALE
SCALE == 100 * 100

MAX_AMPLITUDE == 32767

TOPIC_REF == "esp32/audio_ref"
TOPIC_ERROR == "esp32/audio_error"
TOPIC_SPEAKER == "esp32/audio_processed"
\* a topic of the sensor-telemetry tree that shares the broker
TOPIC_OTHER == "esp32/temperature"

\* self.window_size
window_size == 100

\* self.convergence_threshold = 0.01, in fixed point
convergence_threshold == SCALE \div 100

\* self.signal_threshold = 0.1, in fixed point
signal_threshold == SCALE \div 10

\* self.max_adaptation_rate = 0.1, in fixed point
max_adaptation_rate == SCALE \div 10

\* leakage = 0.9999, in fixed point
leakage == SCALE - 1

\* max_update = 0.1, in fixed point
max_update == SCALE \div 10

\* max_weight = 2.0, in fixed point
max_weight == 2 * SCALE

----------------------------------------------------------------------------
(* Integer and vector helpers (numpy on 1-D arrays) *)

Abs(a) == IF a < 0 THEN -a ELSE a

Min(a, b) == IF a < b THEN a ELSE b

\* quotient truncated toward zero (b > 0)
Quot(a, b) == IF a >= 0 THEN a \div b ELSE -((-a) \div b)

\* product of two fixed-point values
Mul(a, b) == Quot(a * b, SCALE)

RECURSIVE Sum(_)
Sum(v) == IF v = <<>> THEN 0 ELSE Head(v) + Sum(Tail(v))

Zeros(n) == [i \in 1..n |-> 0]

VAbs(v) == [i \in 1..Len(v) |-> Abs(v[i])]

\* np.mean of a non-empty array
Mean(v) == Quot(Sum(v), Len(v))

\* np.max of a non-empty array
RECURSIVE VMax(_)
VMax(v) == IF Len(v) = 1 THEN v[1]
           ELSE LET m == VMax(Tail(v)) IN IF Head(v) > m THEN Head(v) ELSE m

\* np.clip(a, lo, hi)
Clip(a, lo, hi) == IF a < lo THEN lo ELSE IF a > hi THEN hi ELSE a

\* mutant of Roll: the delay line is not shifted
RollNone(v, n) == v

\* np.roll(v, -n): element i of the result is element (i + n) mod len of v
Roll(v, n) ==
    IF Len(v) = 0 THEN v
    ELSE [i \in 1..Len(v) |-> v[((i - 1 + n) % Len(v)) + 1]]

\* v[-n:] for n >= 0; v[-0:] is the whole of v
LastN(v, n) ==
    IF n = 0 \/ n >= Len(v) THEN v
    ELSE SubSeq(v, Len(v) - n + 1, Len(v))

\* v[:-n] for n >= 0; v[:-0] is v[:0], the empty array
DropLastN(v, n) ==
    IF n = 0 \/ n >= Len(v) THEN <<>>
    ELSE SubSeq(v, 1, Len(v) - n)

\* whether numpy can broadcast shapes (a,) and (b,) together
Broadcastable(a, b) == a = b \/ a = 1 \/ b = 1

\* the length of the broadcast of shapes (a,) and (b,)
BroadcastLen(a, b) == IF a = 1 THEN b ELSE a

\* element i of v broadcast to a longer shape
At(v, i) == IF Len(v) = 1 THEN v[1] ELSE v[i]

----------------------------------------------------------------------------
(* Codec: the wire format of on_message *)

\* dtype = np.int16 if BIT_DEPTH == 16 else np.int32: its item size in bytes
bytes_per_sample(c) == IF c.BIT_DEPTH = 16 THEN 2 ELSE 4

\* the signed integer a little-endian two's complement byte string holds
RECURSIVE SignedLE(_)
SignedLE(b) ==
    IF Len(b) = 1 THEN (IF b[1] >= 128 THEN b[1] - 256 ELSE b[1])
    ELSE b[1] + 256 * SignedLE(Tail(b))

\* the k little-endian two's complement bytes of the integer v
RECURSIVE BytesLE(_, _)
BytesLE(v, k) ==
    IF k = 0 THEN <<>>
    ELSE <<v % 256>> \o BytesLE((v - (v % 256)) \div 256, k - 1)

Reverse(s) == [i \in 1..Len(s) |-> s[Len(s) + 1 - i]]

\* ndarray.byteswap() on one element of item size k
ByteSwap(v, k) == SignedLE(Reverse(BytesLE(v, k)))

\* mutant of FromBufferRaises: trailing bytes are silently dropped
FromBufferNeverRaises(raw, c) == FALSE

\* np.frombuffer raises ValueError unless the buffer is whole items
FromBufferRaises(raw, c) == Len(raw) % bytes_per_sample(c) # 0

\* np.frombuffer(raw_bytes, dtype=dtype) on a little-endian host
FromBuffer(raw, c) ==
    LET k == bytes_per_sample(c)
    IN  [i \in 1..(Len(raw) \div k) |->
            SignedLE(SubSeq(raw, k * (i - 1) + 1, k * i))]

\* lines 21-24 and 33-36: the integer samples the decoder reads
DecodedSamples(raw, c) ==
    LET a == FromBuffer(raw, c)
    IN  IF c.ENDIANNESS = "big"
        THEN [i \in 1..Len(a) |-> ByteSwap(a[i], bytes_per_sample(c))]
        ELSE a

\* lines 21-26 and 33-38: the decoded sample vector, in fixed point
Decode(raw, c) ==
    LET a == FromBuffer(raw, c)
        s == IF c.ENDIANNESS = "big"
             THEN [i \in 1..Len(a) |-> ByteSwap(a[i], bytes_per_sample(c))]
             ELSE a
    IN  IF c.NORMALIZE
        THEN [i \in 1..Len(s) |-> Quot(s[i] * SCALE, MAX_AMPLITUDE)]
        ELSE [i \in 1..Len(s) |-> s[i] * SCALE]

\* ndarray.tobytes() of integer items of size k
RECURSIVE ToBytes(_, _)
ToBytes(a, k) ==
    IF a = <<>> THEN <<>> ELSE BytesLE(Head(a), k) \o ToBytes(Tail(a), k)

\* astype(np.int16): the fraction is dropped and the value wraps to 16 bits
AsInt16(v) == ((v + 32768) % 65536) - 32768

\* line 47: the integer samples the encoder makes of a returned vector
EncodedSamples(ret) ==
    [i \in 1..Len(ret) |-> AsInt16(Quot(ret[i] * MAX_AMPLITUDE, SCALE))]

\* lines 45-49: the bytes published for the vector process_chunk returned.
\* r.ret is in fixed point; r.dtype is "input" for zeros_like(d_error) and
\* "float64" for the computed block error.  A float64 item is stood for by
\* the 8 bytes of its fixed-point value.
Encode(r, c) ==
    IF c.NORMALIZE
    THEN ToBytes([i \in 1..Len(r.ret) |->
                    AsInt16(Quot(r.ret[i] * MAX_AMPLITUDE, SCALE))], 2)
    ELSE IF r.dtype = "input"
         THEN ToBytes([i \in 1..Len(r.ret) |-> Quot(r.ret[i], SCALE)],
                      bytes_per_sample(c))
         ELSE ToBytes(r.ret, 8)

----------------------------------------------------------------------------
(* AdaptiveANC *)

\* np.tanh in fixed point: linear interpolation between exact knots
TanhKnots ==
    << <<0, 0>>, <<1000, 997>>, <<2000, 1974>>, <<3000, 2913>>,
       <<4000, 3799>>, <<5000, 4621>>, <<6000, 5370>>, <<7000, 6044>>,
       <<8000, 6640>>, <<9000, 7163>>, <<10000, 7616>>, <<15000, 9051>>,
       <<20000, 9640>>, <<30000, 9951>>, <<40000, 9993>> >>

RECURSIVE TanhPos(_, _)
TanhPos(a, k) ==
    IF k = Len(TanhKnots) THEN TanhKnots[k][2]
    ELSE IF a < TanhKnots[k + 1][1]
         THEN TanhKnots[k][2]
              + ((TanhKnots[k + 1][2] - TanhKnots[k][2]) * (a - TanhKnots[k][1]))
                \div (TanhKnots[k + 1][1] - TanhKnots[k][1])
         ELSE TanhPos(a, k + 1)

Tanh(a) == IF a < 0 THEN -TanhPos(-a, 1) ELSE TanhPos(a, 1)

\* line 31, one operand: np.abs(v).mean() < self.signal_threshold.
\* The mean of an empty array is NaN, which is below nothing.
TooWeak(v) == Len(v) > 0 /\ Mean(VAbs(v)) < signal_threshold

\* mutant of Gated: silence only when both signals are weak ("and" for "or")
GatedWhenBothWeak(x_ref, d_error) == TooWeak(x_ref) /\ TooWeak(d_error)

\* mutant of Gated: the reference level is not looked at
GatedOnErrorOnly(x_ref, d_error) == TooWeak(d_error)

\* mutant of Gated: the error level is not looked at
GatedOnReferenceOnly(x_ref, d_error) == TooWeak(x_ref)

\* line 31: whether the call returns silence without touching the state
Gated(x_ref, d_error) == TooWeak(x_ref) \/ TooWeak(d_error)

\* mutant of GatedOutput: np.zeros_like(x_ref)
GatedOutputLikeReference(x_ref, d_error) == Zeros(Len(x_ref))

\* line 32: np.zeros_like(d_error)
GatedOutput(x_ref, d_error) == Zeros(Len(d_error))

\* lines 35-36: v - np.mean(v)
RemoveDC(v) == [i \in 1..Len(v) |-> v[i] - Mean(v)]

\* line 40: whether self.x_buffer[-len(x_ref):] = x_ref raises
StoreRaises(xb, xr) ==
    /\ Len(LastN(xb, Len(xr))) # Len(xr)
    /\ Len(xr) # 1

\* mutant of Store: the chunk is appended and the oldest samples are kept
StoreAppended(xb, xr) == xb \o xr

\* line 40: self.x_buffer[-len(x_ref):] = x_ref
Store(xb, xr) ==
    LET n == Len(LastN(xb, Len(xr)))
    IN  [i \in 1..Len(xb) |->
            IF i > Len(xb) - n THEN At(xr, i - (Len(xb) - n)) ELSE xb[i]]

\* line 43: self.x_buffer[:-LATENCY_SAMPLES][-self.filter_length:]
Delayed(xb, c) == LastN(DropLastN(xb, c.LATENCY_SAMPLES), c.FILTER_LENGTH)

\* lines 46-47: min(self.mu / (signal_power + 1e-6), self.max_adaptation_rate)
\* with c.MU and p in fixed point and k = 1 / (1e-6 * SCALE):
\* MU / (p + 1e-6) = k * MU * SCALE / (k * p + 1), which reaches the cap
\* exactly when k * MU * SCALE / max_adaptation_rate >= k * p + 1
MuAdjusted(xd, c) ==
    LET p == Mean([i \in 1..Len(xd) |-> Mul(xd[i], xd[i])])
        k == (1000 * 1000) \div SCALE
    IN  IF c.MU * ((k * SCALE) \div max_adaptation_rate) >= k * p + 1
        THEN max_adaptation_rate
        ELSE (k * c.MU * SCALE) \div (k * p + 1)

\* line 50: np.dot of two 1-D arrays of one length
Dot(a, b) == Quot(Sum([i \in 1..Len(a) |-> a[i] * b[i]]), SCALE)

\* lines 55-59: the clipped weight update, e and x_delayed broadcast together
WeightUpdate(mu, e, xd) ==
    [i \in 1..BroadcastLen(Len(e), Len(xd)) |->
        Clip(Mul(Mul(2 * mu, At(e, i)), At(xd, i)), -max_update, max_update)]

\* mutant of NewWeights: the result of np.clip is discarded (no out=)
NewWeightsUnclipped(sw, wu) ==
    [i \in 1..BroadcastLen(Len(sw), Len(wu)) |->
        Mul(leakage, At(sw, i)) + At(wu, i)]

\* lines 61-65: leakage * self.w + weight_update, clipped to max_weight
NewWeights(sw, wu) ==
    [i \in 1..BroadcastLen(Len(sw), Len(wu)) |->
        Clip(Mul(leakage, At(sw, i)) + At(wu, i), -max_weight, max_weight)]

\* mutant of Normalized: the block error goes to tanh as it is
NormalizedNever(e) == e

\* lines 68-69: e scaled by its peak when the peak exceeds 1
Normalized(e) ==
    LET m == VMax(VAbs(e))
    IN  IF m > SCALE THEN [i \in 1..Len(e) |-> Quot(e[i] * SCALE, m)] ELSE e

\* line 72
SoftLimit(e) == [i \in 1..Len(e) |-> Tanh(e[i])]

\* line 74: the value appended to self.error_history, e being the array
\* after line 72
Telemetry(e) == Mean([i \in 1..Len(e) |-> Mul(e[i], e[i])])

\* mutant of Appended: the truncation keeps one entry fewer than a window
AppendedShort(h, v) ==
    LET h1 == Append(h, v)
    IN  IF Len(h1) > window_size * 2 THEN LastN(h1, window_size - 1) ELSE h1

\* mutant of Appended: the history is never truncated
AppendedUnbounded(h, v) == Append(h, v)

\* lines 74-76
Appended(h, v) ==
    LET h1 == Append(h, v)
    IN  IF Len(h1) > window_size * 2 THEN LastN(h1, window_size) ELSE h1

\* mutant of Counted: the call is not counted
NotCounted(n) == n

\* line 78: self.packet_count += 1
Counted(n) == n + 1

\* AdaptiveANC.is_converged(), lines 22-27, on self.error_history = h;
\* np.var is the mean of the squared deviations from the mean
is_converged(h) ==
    IF Len(h) < window_size THEN FALSE
    ELSE LET recent_errors == LastN(h, window_size)
             m == Mean(recent_errors)
             error_variance ==
                 Mean([i \in 1..window_size |->
                          Mul(recent_errors[i] - m, recent_errors[i] - m)])
         IN  error_variance < convergence_threshold

\* the filter state as a record
FilterRec(sw, sx, sh, sp) == [w |-> sw, x_buffer |-> sx, error_history |-> sh,
                              packet_count |-> sp]

\* what a call leaves: its outcome, the line reached, the returned vector and
\* its dtype (when it returns) and the filter state
Result(o, line, ret, dt, st) ==
    [outcome |-> o, line |-> line, ret |-> ret, dtype |-> dt, state |-> st]

\* AdaptiveANC.process_chunk(x_ref, d_error) in filter state st
process_chunk(st, x_ref, d_error, c) ==
    IF Gated(x_ref, d_error)
    THEN Result("gated", 32, GatedOutput(x_ref, d_error), "input", st)
    ELSE
    LET xr  == IF Len(x_ref) = 0 THEN x_ref ELSE RemoveDC(x_ref)
        de  == IF Len(d_error) = 0 THEN d_error ELSE RemoveDC(d_error)
        xb1 == Roll(st.x_buffer, Len(xr))
        xb2 == Store(xb1, xr)
        xd  == Delayed(xb2, c)
        s1  == [st EXCEPT !.x_buffer = xb1]
        s2  == [st EXCEPT !.x_buffer = xb2]
    IN  IF StoreRaises(xb1, xr) THEN Result("raised", 40, <<>>, "none", s1)
        ELSE IF Len(st.w) # Len(xd) THEN Result("raised", 50, <<>>, "none", s2)
        ELSE IF ~Broadcastable(Len(de), Len(xd))
             THEN Result("raised", 55, <<>>, "none", s2)
        ELSE
        LET y   == Dot(st.w, xd)
            e   == [i \in 1..Len(de) |-> de[i] - y]
            wu  == WeightUpdate(MuAdjusted(xd, c), e, xd)
            s3  == [s2 EXCEPT !.w = NewWeights(st.w, wu)]
        IN  IF ~Broadcastable(Len(st.w), Len(wu))
            THEN Result("raised", 61, <<>>, "none", s2)
            ELSE IF Len(e) = 0 THEN Result("raised", 68, <<>>, "none", s3)
            ELSE
            LET out == SoftLimit(Normalized(e))
            IN  Result("active", 79, out, "float64",
                       [s3 EXCEPT
                          !.error_history = Appended(@, Telemetry(out)),
                          !.packet_count = Counted(@)])

\* np.nan: a value outside the range of every fixed-point sample
NaN == -(2^30)

\* np.isfinite(v).all()
IsFinite(v) == \A i \in 1..Len(v) : v[i] # NaN

\* an array of n NaN
Poisoned(n) == [i \in 1..n |-> NaN]

\* line 31, one operand, on an array that may hold NaN: the mean of an array
\* with a NaN is NaN, and NaN < self.signal_threshold is False
TooWeakFloat(v) == IsFinite(v) /\ TooWeak(v)

\* lines 35-36 on an array that may hold NaN: the mean is NaN, and so is
\* every difference
RemoveDCFloat(v) ==
    IF Len(v) = 0 THEN v
    ELSE IF IsFinite(v) THEN RemoveDC(v) ELSE Poisoned(Len(v))

\* AdaptiveANC.process_chunk(x_ref, d_error) on arrays and a filter state
\* that may hold NaN.  NaN propagates through every arithmetic operation,
\* np.dot, np.clip and np.tanh; comparisons with NaN are False.
process_chunk_float(st, x_ref, d_error, c) ==
    IF IsFinite(x_ref) /\ IsFinite(d_error) /\ IsFinite(st.w)
       /\ IsFinite(st.x_buffer)
    THEN process_chunk(st, x_ref, d_error, c)
    ELSE IF TooWeakFloat(x_ref) \/ TooWeakFloat(d_error)
    THEN Result("gated", 32, GatedOutput(x_ref, d_error), "input", st)
    ELSE
    LET xr  == RemoveDCFloat(x_ref)
        de  == RemoveDCFloat(d_error)
        xb1 == Roll(st.x_buffer, Len(xr))
        xb2 == Store(xb1, xr)
        xd  == Delayed(xb2, c)
        s1  == [st EXCEPT !.x_buffer = xb1]
        s2  == [st EXCEPT !.x_buffer = xb2]
    IN  IF StoreRaises(xb1, xr) THEN Result("raised", 40, <<>>, "none", s1)
        ELSE IF Len(st.w) # Len(xd) THEN Result("raised", 50, <<>>, "none", s2)
        ELSE IF ~Broadcastable(Len(de), Len(xd))
             THEN Result("raised", 55, <<>>, "none", s2)
        ELSE IF IsFinite(st.w) /\ IsFinite(xd) /\ IsFinite(de)
        THEN \* the NaN lie in the part of the delay line that is not read
             LET clean == [i \in 1..Len(st.x_buffer) |->
                             IF st.x_buffer[i] = NaN THEN 0
                             ELSE st.x_buffer[i]]
                 r == process_chunk([st EXCEPT !.x_buffer = clean],
                                    x_ref, d_error, c)
             IN  [r EXCEPT !.state.x_buffer = xb2]
        ELSE
        \* y is NaN (a NaN in w or in x_delayed) or d_error is all NaN:
        \* e, the update and the new weights are NaN throughout
        LET n  == BroadcastLen(Len(de), Len(xd))
            s3 == [s2 EXCEPT !.w = Poisoned(BroadcastLen(Len(st.w), n))]
        IN  IF ~Broadcastable(Len(st.w), n)
            THEN Result("raised", 61, <<>>, "none", s2)
            ELSE IF Len(de) = 0 THEN Result("raised", 68, <<>>, "none", s3)
            ELSE Result("active", 79, Poisoned(Len(de)), "float64",
                        [s3 EXCEPT !.error_history = Appended(@, NaN),
                                   !.packet_count = Counted(@)])

----------------------------------------------------------------------------
(* Configurations and inputs *)

\* MU = 0.0005, in fixed point
MU == 5

\* the step size 0.5 of the specification's end-to-end scenarios
MU_SCENARIO == SCALE \div 2

Config(fl, cs, lat, bits, en, norm, mu) ==
    [FILTER_LENGTH |-> fl, CHUNK_SIZE |-> cs, LATENCY_SAMPLES |-> lat,
     BIT_DEPTH |-> bits, ENDIANNESS |-> en, NORMALIZE |-> norm, MU |-> mu]

\* config.py scaled down: a chunk shorter than the filter and no latency
\* compensation (the defaults 256, 2048, 0); filter and chunk of one length;
\* the same with latency compensation; and the other wire formats
Configs ==
    { Config(3, 2, 0, 16, "little", TRUE, MU),
      Config(2, 2, 0, 16, "little", TRUE, MU),
      Config(3, 2, 1, 16, "little", TRUE, MU),
      Config(2, 2, 1, 16, "little", TRUE, MU),
      Config(2, 2, 1, 16, "big", TRUE, MU),
      Config(2, 2, 1, 32, "little", TRUE, MU),
      Config(2, 2, 1, 16, "little", FALSE, MU) }

\* a chunk of n samples of value a, and one alternating between a and -a
Const(n, a) == [i \in 1..n |-> a]
Alt(n, a) == [i \in 1..n |-> IF i % 2 = 1 THEN a ELSE -a]

\* the bytes of a chunk of integer samples on the wire of configuration c
Wire(samples, c) ==
    LET k == bytes_per_sample(c)
        item(v) == IF c.ENDIANNESS = "big" THEN Reverse(BytesLE(v, k))
                   ELSE BytesLE(v, k)
        RECURSIVE cat(_)
        cat(a) == IF a = <<>> THEN <<>> ELSE item(Head(a)) \o cat(Tail(a))
    IN  cat(samples)

\* sample amplitudes: silence, 0.01, 0.5 and full scale when normalised
Quiet(c) == IF c.NORMALIZE THEN 328 ELSE 0
Half(c) == IF c.NORMALIZE THEN 16384 ELSE 1
Full(c) == IF c.NORMALIZE THEN MAX_AMPLITUDE ELSE 2

\* payloads of CHUNK_SIZE samples
ChunkPayloads(c) ==
    { Wire(ch, c) : ch \in { Const(c.CHUNK_SIZE, 0),
                             Const(c.CHUNK_SIZE, Quiet(c)),
                             Const(c.CHUNK_SIZE, Half(c)),
                             Alt(c.CHUNK_SIZE, Half(c)),
                             Alt(c.CHUNK_SIZE, Full(c)) } }

\* payloads of whole samples but not CHUNK_SIZE of them
OddLengthPayloads(c) ==
    { Wire(Alt(c.CHUNK_SIZE + 1, Half(c)), c), <<>> }

\* payloads that are not whole samples
MalformedPayloads(c) ==
    { Wire(Alt(c.CHUNK_SIZE, Half(c)), c) \o <<1>> }

Payloads(c) == ChunkPayloads(c) \cup OddLengthPayloads(c) \cup MalformedPayloads(c)

\* payloads delivered on a topic of another service
OtherPayloads(c) ==
    { Wire(Alt(c.CHUNK_SIZE, Half(c)), c) } \cup MalformedPayloads(c)

\* the configurations in which the active cycle runs to its end, with the
\* step size of the specification's scenarios
RunConfigs ==
    { Config(2, 2, 1, 16, "little", TRUE, MU_SCENARIO),
      Config(2, 2, 2, 16, "little", TRUE, MU_SCENARIO) }

\* the payloads of a sustained stream: a full-scale tone on the reference
\* topic, the tone or silence on the error topic
RunRefPayloads(c) == { Wire(Alt(c.CHUNK_SIZE, Full(c)), c) }

RunErrPayloads(c) ==
    { Wire(Alt(c.CHUNK_SIZE, Full(c)), c), Wire(Const(c.CHUNK_SIZE, 0), c) }

----------------------------------------------------------------------------
(* The shim *)

CurrentFilter == FilterRec(w, x_buffer, error_history, packet_count)

\* the record of one run of on_message: the message, what became of it
\* ("stored", "published", "failed" in the except branch, "ignored"), the
\* process_chunk call it made, if any, and the state it started from
Handled(topic, raw, what, call) ==
    [topic |-> topic, payload |-> raw, what |-> what, call |-> call,
     before |-> CurrentFilter, ref_before |-> ref_chunk_buffer,
     err_before |-> error_chunk_buffer, published_before |-> published,
     seen_before |-> seen]

\* the broker's deliveries: whether a reference message was among them, the
\* payload of the latest reference message made of whole samples (none: <<>>,
\* else <<payload>>), the one before it, and whether a message ended in the
\* except branch
Delivered(topic, raw, failed) ==
    LET whole == topic = TOPIC_REF /\ Len(raw) % bytes_per_sample(cfg) = 0
    IN  [any_ref |-> seen.any_ref \/ topic = TOPIC_REF,
         whole_ref |-> IF whole THEN <<raw>> ELSE seen.whole_ref,
         older_ref |-> IF whole THEN seen.whole_ref ELSE seen.older_ref,
         any_failed |-> seen.any_failed \/ failed]

NoCall == [made |-> FALSE]

Call(x_ref, d_error, r) ==
    [made |-> TRUE, x_ref |-> x_ref, d_error |-> d_error,
     outcome |-> r.outcome, line |-> r.line, ret |-> r.ret]

\* main, lines 56-61: the client connected with a clean session and
\* subscribed to the two audio topics; nothing received yet
Connected ==
    [connected |-> TRUE, subscribed |-> {TOPIC_REF, TOPIC_ERROR},
     reconnected |-> FALSE, inbox |-> <<>>, running |-> <<>>,
     arrived |-> 0, drops |-> 0]

\* MQTTClient after __init__ (lines 40-50) and connect (lines 75-89): the
\* connection is up, loop_start has started the network thread, the
\* connected Event is set and should_reconnect is True.  main is the thread
\* that will call disconnect, net the paho network thread; each is at a line
\* of mqtt_client.py or in a resting place.
Serving ==
    [should_reconnect |-> TRUE, connected |-> TRUE, link |-> "up",
     terminate |-> FALSE, main |-> "serving", net |-> "loop", rc |-> 0,
     drops |-> 0, attempts |-> 0, late |-> 0]

Start ==
    /\ client = Connected
    /\ service = Serving
    /\ w = Zeros(cfg.FILTER_LENGTH)
    /\ x_buffer = Zeros(cfg.FILTER_LENGTH + cfg.LATENCY_SAMPLES)
    /\ error_history = <<>>
    /\ packet_count = 0
    /\ ref_chunk_buffer = Zeros(cfg.CHUNK_SIZE)
    /\ error_chunk_buffer = Zeros(cfg.CHUNK_SIZE)
    /\ published = 0
    /\ speaker = <<>>
    /\ handled = 0
    /\ last = [topic |-> "none"]
    /\ seen = [any_ref |-> FALSE, whole_ref |-> <<>>, older_ref |-> <<>>,
               any_failed |-> FALSE]

Init == cfg \in Configs /\ Start

\* mutant of NewReference: without the global statement the assignment binds
\* a local name and the module's buffer keeps its value
NewReferenceLocal(old, audio_array) == old

\* lines 16 and 28: the module's ref_chunk_buffer after the assignment
NewReference(old, audio_array) == audio_array

\* on_message, msg.topic == TOPIC_REF (lines 18-28, 51-52)
OnReference(raw) ==
    /\ handled' = handled + 1
    /\ IF FromBufferRaises(raw, cfg)
       THEN /\ last' = Handled(TOPIC_REF, raw, "failed", NoCall)
            /\ seen' = Delivered(TOPIC_REF, raw, TRUE)
            /\ UNCHANGED ref_chunk_buffer
       ELSE /\ last' = Handled(TOPIC_REF, raw, "stored", NoCall)
            /\ seen' = Delivered(TOPIC_REF, raw, FALSE)
            /\ ref_chunk_buffer' = NewReference(ref_chunk_buffer,
                                                Decode(raw, cfg))
    /\ UNCHANGED <<cfg, w, x_buffer, error_history, packet_count,
                   error_chunk_buffer, published, speaker>>

\* lines 31-49 and 51-52: the branch of the error topic, run for a message
\* of the given topic
ErrorBranch(topic, raw) ==
    /\ handled' = handled + 1
    /\ IF FromBufferRaises(raw, cfg)
       THEN /\ last' = Handled(topic, raw, "failed", NoCall)
            /\ seen' = Delivered(topic, raw, TRUE)
            /\ UNCHANGED <<w, x_buffer, error_history, packet_count,
                           error_chunk_buffer, published, speaker>>
       ELSE \E d \in {Decode(raw, cfg)} :
            \E r \in {process_chunk(CurrentFilter, ref_chunk_buffer, d, cfg)} :
                /\ error_chunk_buffer' = d
                /\ w' = r.state.w
                /\ x_buffer' = r.state.x_buffer
                /\ error_history' = r.state.error_history
                /\ packet_count' = r.state.packet_count
                /\ IF r.outcome = "raised"
                   THEN /\ UNCHANGED <<published, speaker>>
                        /\ seen' = Delivered(topic, raw, TRUE)
                        /\ last' = Handled(topic, raw, "failed",
                                           Call(ref_chunk_buffer, d, r))
                   ELSE /\ published' = published + 1
                        /\ speaker' = <<Encode(r, cfg)>>
                        /\ seen' = Delivered(topic, raw, FALSE)
                        /\ last' = Handled(topic, raw, "published",
                                           Call(ref_chunk_buffer, d, r))
    /\ UNCHANGED <<cfg, ref_chunk_buffer>>

\* on_message, msg.topic == TOPIC_ERROR (lines 30-49, 51-52)
OnError(raw) == ErrorBranch(TOPIC_ERROR, raw)

\* mutant of OnOther: the error branch is a plain else
OnOtherAsError(raw) == ErrorBranch(TOPIC_OTHER, raw)

\* on_message, any other topic: neither branch is taken
OnOther(raw) ==
    /\ handled' = handled + 1
    /\ last' = Handled(TOPIC_OTHER, raw, "ignored", NoCall)
    /\ seen' = Delivered(TOPIC_OTHER, raw, FALSE)
    /\ UNCHANGED <<cfg, w, x_buffer, error_history, packet_count,
                   ref_chunk_buffer, error_chunk_buffer, published, speaker>>

\* client.loop_forever() hands each delivered message to on_message
Next ==
    \/ \E raw \in Payloads(cfg) :
          handled < MaxMsgs /\ OnReference(raw) /\ UNCHANGED <<client, service>>
    \/ \E raw \in Payloads(cfg) :
          handled < MaxMsgs /\ OnError(raw) /\ UNCHANGED <<client, service>>
    \/ \E raw \in OtherPayloads(cfg) :
          handled < MaxMsgs /\ OnOther(raw) /\ UNCHANGED <<client, service>>

Spec == Init /\ [][Next]_vars

\* a sustained stream of tone and silence chunks on the two audio topics
InitRun == cfg \in RunConfigs /\ Start

NextRun ==
    \/ \E raw \in RunRefPayloads(cfg) :
          handled < MaxRunMsgs /\ OnReference(raw) /\ UNCHANGED <<client, service>>
    \/ \E raw \in RunErrPayloads(cfg) :
          handled < MaxRunMsgs /\ OnError(raw) /\ UNCHANGED <<client, service>>

SpecRun == InitRun /\ [][NextRun]_vars

\* a long stream: the node sends one reference chunk (the tone) and then
\* error chunks only (a tone of half scale or silence), more of them than the error
\* history holds
LongErrPayloads(c) ==
    { Wire(Alt(c.CHUNK_SIZE, Half(c)), c), Wire(Const(c.CHUNK_SIZE, 0), c) }

InitLong == cfg = Config(2, 2, 1, 16, "little", TRUE, MU_SCENARIO) /\ Start

\* a call of anc.is_converged() between two messages: it reads
\* error_history and assigns nothing (lines 22-27)
IsConverged ==
    /\ last' = [topic |-> "is_converged", call |-> NoCall,
                result |-> is_converged(error_history),
                before |-> CurrentFilter]
    /\ UNCHANGED <<cfg, w, x_buffer, error_history, packet_count,
                   ref_chunk_buffer, error_chunk_buffer, published, speaker,
                   handled, seen>>

NextLong ==
    \/ \E raw \in RunRefPayloads(cfg) :
          handled = 0 /\ OnReference(raw) /\ UNCHANGED <<client, service>>
    \/ \E raw \in LongErrPayloads(cfg) :
          /\ 0 < handled /\ handled < MaxLongMsgs
          /\ OnError(raw) /\ UNCHANGED <<client, service>>
    \/ IsConverged /\ UNCHANGED <<client, service>>

SpecLong == InitLong /\ [][NextLong]_vars

\* process_chunk called directly, chunk after chunk, with arrays that may
\* hold a NaN (scenario 6 of the specification: "NaN introduced into one
\* x_ref sample")
CallConfigs == RunConfigs \cup { Config(3, 2, 0, 16, "little", TRUE, MU) }

\* v with a NaN as its first sample
WithNaN(v) == [v EXCEPT ![1] = NaN]

CallRefChunks(c) ==
    { Alt(c.CHUNK_SIZE, SCALE), WithNaN(Alt(c.CHUNK_SIZE, SCALE)) }

CallErrChunks(c) ==
    { Alt(c.CHUNK_SIZE, SCALE), Const(c.CHUNK_SIZE, 0),
      WithNaN(Alt(c.CHUNK_SIZE, SCALE)) }

\* anc.process_chunk(x_ref, d_error) by a caller that lets an exception pass
DirectCall(x_ref, d_error) ==
    /\ handled' = handled + 1
    /\ \E r \in {process_chunk_float(CurrentFilter, x_ref, d_error, cfg)} :
           /\ w' = r.state.w
           /\ x_buffer' = r.state.x_buffer
           /\ error_history' = r.state.error_history
           /\ packet_count' = r.state.packet_count
           /\ last' = Handled("direct", <<>>,
                              IF r.outcome = "raised" THEN "failed"
                              ELSE "returned",
                              Call(x_ref, d_error, r))
    /\ UNCHANGED <<cfg, ref_chunk_buffer, error_chunk_buffer, published,
                   speaker, seen, client, service>>

InitCall == cfg \in CallConfigs /\ Start

NextCall ==
    \E x_ref \in CallRefChunks(cfg) : \E d_error \in CallErrChunks(cfg) :
        handled < MaxCalls /\ DirectCall(x_ref, d_error)

SpecCall == InitCall /\ [][NextCall]_vars

\* the end-to-end scenarios of the specification: FILTER_LENGTH = 4,
\* LATENCY_SAMPLES = 0, MU = 0.5, CHUNK_SIZE = 4, and chunks of constant 0,
\* 0.01 and 0.5 (scenarios 1 to 3) or a tone at half or full amplitude
ScenarioConfig == Config(4, 4, 0, 16, "little", TRUE, MU_SCENARIO)

ScenarioChunks(c) ==
    { Const(c.CHUNK_SIZE, 0), Const(c.CHUNK_SIZE, SCALE \div 100),
      Const(c.CHUNK_SIZE, SCALE \div 2), Alt(c.CHUNK_SIZE, SCALE \div 2),
      Alt(c.CHUNK_SIZE, SCALE) }

InitScenario == cfg = ScenarioConfig /\ Start

NextScenario ==
    \E x_ref \in ScenarioChunks(cfg) : \E d_error \in ScenarioChunks(cfg) :
        handled < MaxCalls /\ DirectCall(x_ref, d_error)

SpecScenario == InitScenario /\ [][NextScenario]_vars

\* the codec on its own: a payload is decoded (lines 33-38) and the decoded
\* vector encoded again (lines 46-49).  The payloads hold the amplitudes the
\* fixed-point scale represents exactly: silence and full scale.
CodecPayloads(c) ==
    { Wire(ch, c) : ch \in { Const(c.CHUNK_SIZE, 0),
                             Const(c.CHUNK_SIZE, Full(c)),
                             Alt(c.CHUNK_SIZE, Full(c)),
                             Alt(c.CHUNK_SIZE, -Full(c)),
                             <<Full(c)>>,
                             <<>> } }

\* the array the decoder hands on, as process_chunk would return it: in the
\* dtype of the decoded input
Decoded(raw, c) ==
    Result("decoded", 38, Decode(raw, c), "input", CurrentFilter)

RoundTrip(raw) ==
    /\ handled' = handled + 1
    /\ speaker' = <<Encode(Decoded(raw, cfg), cfg)>>
    /\ last' = Handled("codec", raw, "encoded", NoCall)
    /\ UNCHANGED <<cfg, w, x_buffer, error_history, packet_count,
                   ref_chunk_buffer, error_chunk_buffer, published, seen,
                   client, service>>

NextCodec ==
    \E raw \in CodecPayloads(cfg) : handled < MaxMsgs /\ RoundTrip(raw)

SpecCodec == Init /\ [][NextCodec]_vars

\* the network loop of main (lines 59-63): the broker forwards what is
\* published on the subscribed topics, client.loop_forever() reads one
\* message after the other and calls on_message for each from its own
\* thread, and reconnects when the connection is lost

\* a message as the client receives it, numbered in arrival order
Message(topic, raw) ==
    [topic |-> topic, payload |-> raw, seq |-> client.arrived + 1]

\* running without the element at index i
Without(running, i) ==
    SubSeq(running, 1, i - 1) \o SubSeq(running, i + 1, Len(running))

\* the broker forwards a publication (QoS 0) to the connected client, which
\* holds it until the loop reads it
Arrive(topic, raw) ==
    /\ client.connected
    /\ topic \in client.subscribed
    /\ client.arrived < MaxMsgs
    /\ Len(client.inbox) < MaxInbox
    /\ client' = [client EXCEPT !.inbox = Append(@, Message(topic, raw)),
                                !.arrived = @ + 1]
    /\ UNCHANGED <<cfg, w, x_buffer, error_history, packet_count,
                   ref_chunk_buffer, error_chunk_buffer, published, speaker,
                   handled, last, seen, service>>

\* mutant of LoopIdle: each message is handed to a thread of its own
LoopThreaded == TRUE

\* line 63: loop_forever calls on_message itself and reads the next message
\* only when the call has returned
LoopIdle == client.running = <<>>

\* loop_forever reads the oldest message received and enters on_message
Dispatch ==
    /\ LoopIdle
    /\ client.inbox # <<>>
    /\ client' = [client EXCEPT !.running = Append(@, Head(client.inbox)),
                                !.inbox = Tail(@)]
    /\ UNCHANGED <<cfg, w, x_buffer, error_history, packet_count,
                   ref_chunk_buffer, error_chunk_buffer, published, speaker,
                   handled, last, seen, service>>

\* on_message runs to its end for a message it was entered with (only the
\* subscribed topics are delivered)
Return(i) ==
    /\ LET m == client.running[i]
       IN  \/ m.topic = TOPIC_REF /\ OnReference(m.payload)
           \/ m.topic = TOPIC_ERROR /\ OnError(m.payload)
    /\ client' = [client EXCEPT !.running = Without(@, i)]
    /\ UNCHANGED service

\* the connection to the broker is lost; mqtt.Client() (line 56) asked for a
\* clean session, so the broker drops the client's subscriptions with it
Disconnect ==
    /\ client.connected
    /\ client.drops < MaxDrops
    /\ client' = [client EXCEPT !.connected = FALSE, !.subscribed = {},
                                !.drops = @ + 1]
    /\ UNCHANGED <<cfg, w, x_buffer, error_history, packet_count,
                   ref_chunk_buffer, error_chunk_buffer, published, speaker,
                   handled, last, seen, service>>

\* loop_forever connects again.  client.subscribe was called once, in main
\* (line 61), and no on_connect callback is set: nothing subscribes again
Reconnect ==
    /\ ~client.connected
    /\ LoopIdle
    /\ client' = [client EXCEPT !.connected = TRUE, !.reconnected = TRUE]
    /\ UNCHANGED <<cfg, w, x_buffer, error_history, packet_count,
                   ref_chunk_buffer, error_chunk_buffer, published, speaker,
                   handled, last, seen, service>>

NextLoop ==
    \/ \E raw \in RunRefPayloads(cfg) : Arrive(TOPIC_REF, raw)
    \/ \E raw \in RunErrPayloads(cfg) : Arrive(TOPIC_ERROR, raw)
    \/ Dispatch
    \/ \E i \in 1..Len(client.running) : Return(i)
    \/ Disconnect
    \/ Reconnect

SpecLoop == InitRun /\ [][NextLoop]_vars

\* ml_service's MQTTClient: the thread that calls disconnect() and paho's
\* network thread, which runs the callbacks.  A step is one statement; the
\* retry that paho's own loop makes after a callback is left out.

\* what the shim's variables are left as
shim == <<cfg, w, x_buffer, error_history, packet_count, ref_chunk_buffer,
          error_chunk_buffer, published, speaker, handled, last, seen,
          client>>

\* return codes paho passes to on_disconnect when the connection is lost
UnexpectedRc == {1, 7}

\* the connection is lost: paho calls _on_disconnect(rc) on the network
\* thread, which runs line 111, self.connected.clear()
ConnectionLost(rc) ==
    /\ service.net = "loop"
    /\ service.link = "up"
    /\ ~service.terminate
    /\ service.drops < MaxServiceDrops
    /\ service' = [service EXCEPT !.link = "down", !.connected = FALSE,
                                  !.rc = rc, !.net = "113",
                                  !.drops = @ + 1]
    /\ UNCHANGED shim

\* lines 113-116 and 123-124: the tests of rc and of self.should_reconnect
TestShouldReconnect ==
    /\ service.net = "113"
    /\ service' = [service EXCEPT
                     !.net = IF service.rc # 0 /\ service.should_reconnect
                             THEN "118" ELSE "loop"]
    /\ UNCHANGED shim

\* line 118: time.sleep(self.reconnect_delay) returns
Sleep ==
    /\ service.net = "118"
    /\ service' = [service EXCEPT !.net = "120"]
    /\ UNCHANGED shim

\* whether a reconnection attempt is made after the shutdown request: the
\* value of self.should_reconnect when line 120 is run
AttemptIsLate == ~service.should_reconnect

\* lines 119-122: client.reconnect(), which connects or raises; then the
\* callback returns to the loop
Reconnect120(ok) ==
    /\ service.net = "120"
    /\ service' = [service EXCEPT
                     !.attempts = @ + 1,
                     !.late = IF AttemptIsLate THEN @ + 1 ELSE @,
                     !.link = IF ok THEN "connecting" ELSE "down",
                     !.net = "loop"]
    /\ UNCHANGED shim

\* _on_connect with rc == 0 (lines 97-104), run by the loop when the broker
\* has acknowledged the connection
OnConnect ==
    /\ service.net = "loop"
    /\ service.link = "connecting"
    /\ ~service.terminate
    /\ service' = [service EXCEPT !.link = "up", !.connected = TRUE]
    /\ UNCHANGED shim

\* the network thread leaves its loop once loop_stop has asked it to
ThreadExit ==
    /\ service.net = "loop"
    /\ service.terminate
    /\ service' = [service EXCEPT !.net = "exited"]
    /\ UNCHANGED shim

\* disconnect(), line 209: self.should_reconnect = False
Shutdown209 ==
    /\ service.main = "serving"
    /\ service' = [service EXCEPT !.should_reconnect = FALSE, !.main = "210"]
    /\ UNCHANGED shim

\* line 210, self.client.loop_stop(): the thread is asked to stop ...
LoopStop210 ==
    /\ service.main = "210"
    /\ service' = [service EXCEPT !.terminate = TRUE, !.main = "join"]
    /\ UNCHANGED shim

\* ... and joined; then lines 211-212, self.client.disconnect() and
\* self.connected.clear()
Joined211 ==
    /\ service.main = "join"
    /\ service.net = "exited"
    /\ service' = [service EXCEPT !.link = "down", !.connected = FALSE,
                                  !.main = "done"]
    /\ UNCHANGED shim

InitService == cfg = Config(3, 2, 0, 16, "little", TRUE, MU) /\ Start

NextService ==
    \/ \E rc \in UnexpectedRc : ConnectionLost(rc)
    \/ TestShouldReconnect
    \/ Sleep
    \/ \E ok \in BOOLEAN : Reconnect120(ok)
    \/ OnConnect
    \/ ThreadExit
    \/ Shutdown209
    \/ LoopStop210
    \/ Joined211

SpecService == InitService /\ [][NextService]_vars

----------------------------------------------------------------------------
(* Vocabulary of the claims *)

\* the payload is made of whole samples
Whole(raw) == Len(raw) % bytes_per_sample(cfg) = 0

\* the payload is one chunk: CHUNK_SIZE * bytes_per_sample bytes
WellFormed(raw) == Len(raw) = cfg.CHUNK_SIZE * bytes_per_sample(cfg)

\* the mean absolute value of v is strictly below 0.1
MeanAbsBelowTenth(v) == Len(v) > 0 /\ 10 * Sum(VAbs(v)) < Len(v) * SCALE

AllZero(v) == \A i \in 1..Len(v) : v[i] = 0

\* the last message made on_message call process_chunk
CallMade == last.topic # "none" /\ last.call.made

\* the last message left w, x_buffer and error_history as they were
FilterFrozen ==
    /\ w = last.before.w
    /\ x_buffer = last.before.x_buffer
    /\ error_history = last.before.error_history

----------------------------------------------------------------------------
(* Claims *)

\* C1: a process_chunk call in which the mean absolute value of x_ref or of
\* d_error is strictly below 0.1 returns an all-zero vector of the error
\* chunk's length and leaves w, x_buffer and error_history as they were; in
\* particular all-zero chunks leave a zero w at zero and yield zero output.
C1_GatedCallFreezesState ==
    /\ (CallMade /\ (\/ MeanAbsBelowTenth(last.call.x_ref)
                     \/ MeanAbsBelowTenth(last.call.d_error)))
       => /\ last.call.outcome = "gated"
          /\ last.call.ret = Zeros(Len(last.call.d_error))
          /\ FilterFrozen
    /\ (CallMade /\ Len(last.call.x_ref) > 0 /\ Len(last.call.d_error) > 0
                 /\ AllZero(last.call.x_ref) /\ AllZero(last.call.d_error)
                 /\ AllZero(last.before.w))
       => AllZero(w) /\ AllZero(last.call.ret)

\* C1 witness: after the filter has adapted, a call with a strong reference
\* and a weak error chunk is gated
C1_Witness ==
    /\ CallMade
    /\ last.call.outcome = "gated"
    /\ ~AllZero(last.before.w)
    /\ ~MeanAbsBelowTenth(last.call.x_ref)
    /\ MeanAbsBelowTenth(last.call.d_error)

\* C2: process_chunk never raises on well-formed input (x_ref and d_error of
\* CHUNK_SIZE normalised samples), under the bound configuration constants.
\* Violated: with LATENCY_SAMPLES = 0 every call that is not gated raises.
C2_NeverRaisesOnWellFormedInput ==
    (CallMade /\ cfg.NORMALIZE
              /\ Len(last.call.x_ref) = cfg.CHUNK_SIZE
              /\ Len(last.call.d_error) = cfg.CHUNK_SIZE)
    => last.call.outcome # "raised"

\* C3: every well-formed message on the error topic makes the shim call
\* process_chunk once with (last_reference, decoded error vector) and publish
\* one encoded chunk, for gated and active chunks alike.  Stated for the
\* shim holding a reference chunk of CHUNK_SIZE normalised samples.
\* Violated: a chunk that is not gated raises inside process_chunk.
C3_ErrorMessagePublishesOnce ==
    (last.topic = TOPIC_ERROR /\ WellFormed(last.payload) /\ cfg.NORMALIZE
                              /\ Len(last.ref_before) = cfg.CHUNK_SIZE)
    => /\ last.call.made
       /\ last.call.x_ref = last.ref_before
       /\ last.call.d_error = Decode(last.payload, cfg)
       /\ last.what = "published"
       /\ published = last.published_before + 1

\* C4: after any sequence of process_chunk calls every element of w lies in
\* [-2.0, +2.0].
C4_WeightsBounded ==
    \A i \in 1..Len(w) : -max_weight <= w[i] /\ w[i] <= max_weight

\* C4 witness: an active call has driven a weight to the bound
C4_Witness ==
    /\ CallMade
    /\ last.call.outcome = "active"
    /\ w # last.before.w
    /\ \E i \in 1..Len(w) : Abs(w[i]) = max_weight

\* C5: after construction and after any sequence of process_chunk calls,
\* those that raise included, len(w) == FILTER_LENGTH and
\* len(x_buffer) == FILTER_LENGTH + LATENCY_SAMPLES.
C5_LengthsFixed ==
    /\ Len(w) = cfg.FILTER_LENGTH
    /\ Len(x_buffer) = cfg.FILTER_LENGTH + cfg.LATENCY_SAMPLES

\* C5 witness: a call that raised after it had written to the delay line
C5_Witness ==
    /\ CallMade
    /\ last.call.outcome = "raised"
    /\ x_buffer # last.before.x_buffer

\* C6: every process_chunk call that returns yields a vector as long as its
\* d_error argument, on the gated and on the active path.
C6_OutputLength ==
    (CallMade /\ last.call.outcome # "raised")
    => Len(last.call.ret) = Len(last.call.d_error)

\* C6 witness: a call that completed the active path
C6_Witness ==
    /\ CallMade
    /\ last.call.outcome = "active"
    /\ Len(last.call.d_error) = cfg.CHUNK_SIZE

\* C7: each error chunk is processed against the most recent reference chunk
\* decoded before the error message was handled (the initial zeros when
\* there is none), never against an older one.
C7_LatestReferenceUsed ==
    CallMade
    => last.call.x_ref =
          IF last.seen_before.whole_ref = <<>>
          THEN Zeros(cfg.CHUNK_SIZE)
          ELSE Decode(last.seen_before.whole_ref[1], cfg)

\* C7 witness: two different reference chunks arrived before the error chunk
C7_Witness ==
    /\ CallMade
    /\ last.seen_before.older_ref # <<>>
    /\ Decode(last.seen_before.older_ref[1], cfg)
          # Decode(last.seen_before.whole_ref[1], cfg)

\* C8: only an error-topic message triggers a filter cycle or a publish: a
\* reference message replaces last_reference and neither calls process_chunk
\* nor publishes, a message on another topic changes nothing; in both cases
\* w, x_buffer, error_history and packet_count are unchanged.
C8_OnlyErrorTopicTriggers ==
    /\ (last.topic = TOPIC_REF /\ Whole(last.payload))
       => ref_chunk_buffer = Decode(last.payload, cfg)
    /\ last.topic \in {TOPIC_REF, TOPIC_OTHER}
       => /\ ~last.call.made
          /\ published = last.published_before
          /\ FilterFrozen
          /\ packet_count = last.before.packet_count
          /\ error_chunk_buffer = last.err_before
    /\ last.topic = TOPIC_OTHER
       => ref_chunk_buffer = last.ref_before

\* C8 witness: a reference message replaces the reference of an adapted filter
C8_Witness ==
    /\ last.topic = TOPIC_REF
    /\ last.what = "stored"
    /\ last.before.packet_count > 0
    /\ ref_chunk_buffer # last.ref_before

\* C9: while no reference message has been received, every error message
\* (of whole samples) is processed against the initial all-zero reference,
\* the filter gates, an all-zero chunk is published, and w, x_buffer and
\* error_history stay at their initial values.
C9_NoReferenceYet ==
    (last.topic = TOPIC_ERROR /\ ~last.seen_before.any_ref
                              /\ Whole(last.payload))
    => /\ last.call.made
       /\ last.call.x_ref = Zeros(cfg.CHUNK_SIZE)
       /\ last.call.outcome = "gated"
       /\ published = last.published_before + 1
       /\ Len(speaker) = 1 /\ AllZero(speaker[1])
       /\ Len(speaker[1]) > 0 <=> Len(last.payload) > 0
       /\ w = Zeros(cfg.FILTER_LENGTH)
       /\ x_buffer = Zeros(cfg.FILTER_LENGTH + cfg.LATENCY_SAMPLES)
       /\ error_history = <<>>

\* C9 witness: a second strong error chunk before any reference message
C9_Witness ==
    /\ last.topic = TOPIC_ERROR
    /\ ~last.seen_before.any_ref
    /\ WellFormed(last.payload)
    /\ ~MeanAbsBelowTenth(last.call.d_error)
    /\ published >= 2

\* C10: a payload on the reference or error topic that is not whole samples
\* is dropped: nothing is published, process_chunk is not called,
\* last_reference, w, x_buffer and error_history are unchanged, and the shim
\* goes on to handle the next message.
C10_MalformedDropped ==
    (last.topic \in {TOPIC_REF, TOPIC_ERROR} /\ ~Whole(last.payload))
    => /\ last.what = "failed"
       /\ ~last.call.made
       /\ published = last.published_before
       /\ ref_chunk_buffer = last.ref_before
       /\ FilterFrozen
       /\ handled < MaxMsgs => ENABLED Next

\* C10 witness: a malformed error payload reaches a filter that has adapted
\* and holds a reference
C10_Witness ==
    /\ last.topic = TOPIC_ERROR
    /\ ~Whole(last.payload)
    /\ last.before.packet_count > 0
    /\ ~AllZero(ref_chunk_buffer)

\* C11: whenever the handling of a chunk fails (on_message ends in its
\* except branch and publishes nothing, the failure arising in decoding or
\* inside process_chunk), w, x_buffer, error_history and packet_count are
\* what they were before that message.
\* Violated: process_chunk raises after it has written to the delay line.
C11_FailedChunkLeavesStateIntact ==
    (last.topic # "none" /\ last.what = "failed")
    => /\ published = last.published_before
       /\ FilterFrozen
       /\ packet_count = last.before.packet_count

\* C12: when the reference and the error chunk handed to the filter differ
\* in length, processing aborts: no output is published for such a pair and
\* the shim handles no later message (the error surfaces and the process
\* stops).
\* Violated: a gated pair is answered with zeros, and an exception is caught
\* in on_message, after which loop_forever delivers the next message.
C12_LengthMismatchAborts ==
    (CallMade /\ Len(last.call.x_ref) # Len(last.call.d_error))
    => /\ last.what = "failed"
       /\ published = last.published_before
       /\ handled < MaxMsgs => ~ENABLED Next

\* the squared Euclidean norm of v, in units of 1 / SCALE^2
NormSq(v) == Sum([i \in 1..Len(v) |-> v[i] * v[i]])

\* the last message made a call with a reference of mean absolute value at
\* least 0.1 and an all-zero error chunk, on a filter whose w was not zero
IdleCall ==
    /\ CallMade
    /\ ~AllZero(last.before.w)
    /\ Len(last.call.x_ref) > 0 /\ ~MeanAbsBelowTenth(last.call.x_ref)
    /\ Len(last.call.d_error) > 0 /\ AllZero(last.call.d_error)

\* C13 as stated: from a state with w # 0, every chunk with x_ref # 0 (mean
\* absolute value at least 0.1) and d_error = 0 multiplies the idle weights
\* by the leakage factor, so that the norm of w shrinks toward zero.
\* Violated: the zero error chunk gates the call and w keeps its value.
C13_LeakageShrinksIdleWeights ==
    IdleCall => NormSq(w) < NormSq(last.before.w)

\* C13 amended: from a state with w # 0, every chunk with x_ref # 0 (mean
\* absolute value at least 0.1) and d_error = 0 is gated, returns zeros and
\* leaves w as it was: the norm of w stays constant and never shrinks.
C13_IdleWeightsKept ==
    IdleCall
    => /\ last.call.outcome = "gated"
       /\ w = last.before.w
       /\ NormSq(w) = NormSq(last.before.w)
       /\ AllZero(last.call.ret)

\* C13 witness: a second chunk in a row with a strong reference and a zero
\* error reaches a filter that has adapted
C13_Witness ==
    /\ IdleCall
    /\ last.before.packet_count > 0
    /\ last.published_before > last.before.packet_count
    /\ NormSq(w) > 0

\* C14: after any process_chunk call, one whose x_ref holds a NaN sample
\* included, w and x_buffer hold finite values only: the call either aborts
\* without storing the NaN or resets w to zero.
\* Violated: the NaN is stored in x_buffer and spreads to every weight.
C14_StateStaysFinite ==
    (CallMade /\ IsFinite(last.before.w) /\ IsFinite(last.before.x_buffer)
              /\ IsFinite(last.call.d_error))
    => IsFinite(w) /\ IsFinite(x_buffer)

\* C15: every sample of every vector process_chunk returns lies strictly
\* between -1 and +1: on the active path the block error is scaled to a peak
\* of at most 1 before tanh (so that no sample exceeds tanh(1)), on the gated
\* path the output is zero.
C15_OutputWithinUnit ==
    (CallMade /\ last.call.outcome # "raised")
    => /\ \A i \in 1..Len(last.call.ret) :
              /\ -SCALE < last.call.ret[i] /\ last.call.ret[i] < SCALE
              /\ Abs(last.call.ret[i]) <= Tanh(SCALE)
       /\ last.call.outcome = "gated" => AllZero(last.call.ret)

\* C15 witness: an active call whose block error had a peak above 1 (an
\* error chunk of peak 1 and a filter output y that is not zero) and was
\* scaled down to it
C15_Witness ==
    /\ CallMade
    /\ last.call.outcome = "active"
    /\ Dot(last.before.w, Delayed(x_buffer, cfg)) # 0
    /\ VMax(VAbs(RemoveDC(last.call.d_error))) >= SCALE
    /\ VMax(VAbs(last.call.ret)) = Tanh(SCALE)

\* C16: every payload the shim publishes to the speaker topic is exactly
\* CHUNK_SIZE * bytes_per_sample bytes (signed PCM at the configured depth),
\* for BIT_DEPTH 16 and 32, NORMALIZE on and off, on the gated and on the
\* active path.  Stated for error messages of one chunk.
\* Violated: with BIT_DEPTH = 32 the normalised output is cast to int16.
C16_PublishedFrameSize ==
    (last.topic = TOPIC_ERROR /\ last.what = "published"
                              /\ WellFormed(last.payload))
    => /\ Len(speaker) = 1
       /\ Len(speaker[1]) = cfg.CHUNK_SIZE * bytes_per_sample(cfg)

\* C17: encoding is the inverse of decoding: for every payload of whole
\* samples within range, decoding it (frombuffer, byte swap, division by
\* MAX_AMPLITUDE) and encoding the result (multiplication by MAX_AMPLITUDE,
\* conversion to integer, serialisation) yields the payload bit for bit.
\* Violated: the encoder neither swaps bytes nor follows BIT_DEPTH.
C17_EncodeInvertsDecode ==
    (last.topic = "codec" /\ Whole(last.payload))
    => speaker = <<last.payload>>

\* C18: the encoder serialises the output samples in the configured byte
\* order: with ENDIANNESS = 'big' the published bytes are big-endian, so
\* that the shim's own decoder recovers from a published payload the integer
\* samples that were encoded.
\* Violated: tobytes() writes host (little-endian) order in every
\* configuration.
C18_PublishedInConfiguredOrder ==
    (last.topic = TOPIC_ERROR /\ last.what = "published"
        /\ cfg.ENDIANNESS = "big" /\ cfg.NORMALIZE /\ cfg.BIT_DEPTH = 16)
    => DecodedSamples(speaker[1], cfg) = EncodedSamples(last.call.ret)

\* C19: no two on_message callbacks execute concurrently: what the handling
\* of one message reads and writes of w, x_buffer, error_history and
\* last_reference (process_chunk and the publish included) is complete
\* before the handling of the next begins, and the messages are handled one
\* at a time in arrival order.
C19_CallbacksSerialised ==
    /\ Len(client.running) <= 1
    /\ client.running # <<>> => client.running[1].seq = handled + 1
    /\ \A i \in 1..Len(client.inbox) :
          client.inbox[i].seq = handled + Len(client.running) + i

\* C19 witness: the callback of an error message is in progress, after a
\* reference message was handled, while the next message has already arrived
C19_Witness ==
    /\ client.running # <<>>
    /\ client.running[1].topic = TOPIC_ERROR
    /\ client.inbox # <<>>
    /\ handled > 0
    /\ ~AllZero(ref_chunk_buffer)

\* C20: after an unexpected disconnect the shim connects again and is then
\* subscribed again to the reference and the error topic, so that error
\* chunks arriving after the reconnect are processed and answered.
\* Violated: the subscriptions of the clean session are gone and nothing
\* makes them again; no message arrives any more.
C20_SubscribedAfterReconnect ==
    (client.connected /\ client.reconnected)
    => /\ {TOPIC_REF, TOPIC_ERROR} \subseteq client.subscribed
       /\ (client.arrived < MaxMsgs /\ Len(client.inbox) < MaxInbox)
          => \A raw \in RunErrPayloads(cfg) : ENABLED Arrive(TOPIC_ERROR, raw)

\* C21: a shutdown request sets should_reconnect to false, and from then on
\* no reconnection attempt (client.reconnect) is made, under every
\* interleaving of disconnect() with a disconnect callback on the network
\* thread, one that has already begun to handle an unexpected disconnect
\* included.
\* Violated: the callback tests the flag at line 116, sleeps, and calls
\* client.reconnect() at line 120 without testing it again.
C21_NoReconnectAfterShutdown ==
    /\ service.main # "serving" => ~service.should_reconnect
    /\ service.late = 0

\* C22: after any sequence of process_chunk calls len(error_history) is at
\* most 2 * window_size (200); when an append pushes the length past that
\* bound the oldest entries are dropped and the most recent window_size
\* entries are left.
C22_HistoryBounded ==
    /\ Len(error_history) <= 2 * window_size
    /\ (CallMade /\ last.call.outcome = "active")
       => LET h0 == last.before.error_history
              n0 == Len(h0)
          IN  /\ n0 < 2 * window_size
                 => /\ Len(error_history) = n0 + 1
                    /\ SubSeq(error_history, 1, n0) = h0
              /\ n0 = 2 * window_size
                 => /\ Len(error_history) = window_size
                    /\ \A i \in 1..(window_size - 1) :
                          error_history[i] = h0[n0 - window_size + 1 + i]

\* C22 witness: an active call made with a history of 200 entries, whose
\* older half differs from its newer half
C22_Witness ==
    /\ CallMade
    /\ last.call.outcome = "active"
    /\ Len(last.before.error_history) = 2 * window_size
    /\ \E i \in 1..window_size :
          last.before.error_history[i]
             # last.before.error_history[i + window_size]

\* C23: with FILTER_LENGTH = 4, LATENCY_SAMPLES = 0, MU = 0.5,
\* CHUNK_SIZE = 4 and the filter in its initial state,
\* process_chunk([0.5, 0.5, 0.5, 0.5], [0.5, 0.5, 0.5, 0.5]) is not gated
\* and returns a vector that is not zero (the repeated chunk then moves w so
\* that the filter output approaches 0.5).
\* Violated: the call raises at line 50; the two chunks are zero after the
\* DC removal.
C23_ScenarioThree ==
    (CallMade /\ cfg = ScenarioConfig
              /\ last.before.packet_count = 0 /\ AllZero(last.before.w)
              /\ AllZero(last.before.x_buffer)
              /\ last.call.x_ref = Const(cfg.CHUNK_SIZE, SCALE \div 2)
              /\ last.call.d_error = Const(cfg.CHUNK_SIZE, SCALE \div 2))
    => /\ last.call.outcome = "active"
       /\ ~AllZero(last.call.ret)
       /\ w # last.before.w

\* C24: in the active path (a call that is not gated and has stored its
\* chunk) x_delayed is exactly FILTER_LENGTH samples of x_buffer, ending
\* LATENCY_SAMPLES positions before the tail; with LATENCY_SAMPLES = 0 these
\* are the last FILTER_LENGTH samples, the chunk just stored included.
\* Violated: with LATENCY_SAMPLES = 0 the slice of line 43 is empty.
C24_DelayedWindow ==
    (CallMade /\ last.call.outcome # "gated"
              /\ ~(last.call.outcome = "raised" /\ last.call.line = 40))
    => LET x_delayed == Delayed(x_buffer, cfg)
           tail      == Len(x_buffer) - cfg.LATENCY_SAMPLES
       IN  /\ Len(x_delayed) = cfg.FILTER_LENGTH
           /\ x_delayed
                = SubSeq(x_buffer, tail - cfg.FILTER_LENGTH + 1, tail)

\* C25: for every chunk length N = CHUNK_SIZE, not only N = FILTER_LENGTH, a
\* call that reaches the weight update (lines 49-61) forms an update of
\* FILTER_LENGTH elements clipped to +/-max_update and sets
\* w <- leakage * w + update, so that each weight moves by at most max_update
\* beyond its leakage decay.
\* Violated: with CHUNK_SIZE # FILTER_LENGTH line 55 raises and w is not
\* updated.
C25_UpdateForEveryChunkLength ==
    (CallMade /\ last.call.outcome # "gated"
              /\ Len(last.call.x_ref) = cfg.CHUNK_SIZE
              /\ Len(last.call.d_error) = cfg.CHUNK_SIZE
              /\ ~(last.call.outcome = "raised" /\ last.call.line \in {40, 50}))
    => /\ last.call.outcome = "active"
       /\ Len(w) = cfg.FILTER_LENGTH
       /\ \A i \in 1..cfg.FILTER_LENGTH :
             Abs(w[i] - Mul(leakage, last.before.w[i])) <= max_update

\* lines 35-69 of a call that runs to the end: the block error after the
\* rescaling of lines 68-69, before line 72
ScaledError(st, x_ref, d_error, c) ==
    LET xr == RemoveDC(x_ref)
        de == RemoveDC(d_error)
        xd == Delayed(Store(Roll(st.x_buffer, Len(xr)), xr), c)
        y  == Dot(st.w, xd)
    IN  Normalized([i \in 1..Len(de) |-> de[i] - y])

\* C26: the value an active call appends to error_history is the mean of
\* the squares of the block error after the rescaling by max(|e|) and before
\* the tanh soft limiter, not of the returned output.
\* Violated: line 74 follows line 72 and takes the array tanh returned.
C26_TelemetryBeforeTanh ==
    (CallMade /\ last.call.outcome = "active")
    => error_history[Len(error_history)]
          = Telemetry(ScaledError(last.before, last.call.x_ref,
                                  last.call.d_error, cfg))

\* C27: after a call that is not gated and has stored its chunk of N
\* samples, 1 <= N <= len(x_buffer), the last N samples of x_buffer are the
\* DC-removed x_ref and the samples before them are the previous
\* x_buffer[N:], in their order (the delay line shifted left by N).
C27_DelayLineShifted ==
    (CallMade /\ last.call.outcome # "gated"
              /\ ~(last.call.outcome = "raised" /\ last.call.line = 40)
              /\ 1 <= Len(last.call.x_ref)
              /\ Len(last.call.x_ref) <= Len(last.before.x_buffer))
    => LET N == Len(last.call.x_ref)
           L == Len(last.before.x_buffer)
       IN  /\ Len(x_buffer) = L
           /\ SubSeq(x_buffer, L - N + 1, L) = RemoveDC(last.call.x_ref)
           /\ SubSeq(x_buffer, 1, L - N)
                = SubSeq(last.before.x_buffer, N + 1, L)

\* an active call that shifts samples other than zero towards the head of
\* the delay line and stores a chunk other than zero behind them
C27_Witness ==
    /\ CallMade
    /\ last.call.outcome = "active"
    /\ Len(last.call.x_ref) < Len(last.before.x_buffer)
    /\ ~AllZero(SubSeq(x_buffer, 1,
                       Len(x_buffer) - Len(last.call.x_ref)))
    /\ ~AllZero(RemoveDC(last.call.x_ref))
    /\ SubSeq(x_buffer, 1, Len(x_buffer) - Len(last.call.x_ref))
          # SubSeq(last.before.x_buffer, 1,
                   Len(x_buffer) - Len(last.call.x_ref))

\* whether the run of on_message recorded in l was for an error message and
\* its process_chunk call stored the reference chunk in x_buffer (lines
\* 39-40: the call was not gated and line 40 did not raise)
StoredReference(l) ==
    /\ l.topic = TOPIC_ERROR
    /\ l.call.made
    /\ l.call.outcome # "gated"
    /\ ~(l.call.outcome = "raised" /\ l.call.line = 40)

\* C28: each reference chunk received is inserted into x_buffer at most
\* once, also when two or more error messages arrive between two reference
\* messages: an error message whose call stored the reference chunk is not
\* followed by a message that stores the same chunk again.
\* Violated: every error message passes ref_chunk_buffer to process_chunk.
C28_ReferenceInsertedOnce ==
    [][ (handled' = handled + 1 /\ last.topic = TOPIC_ERROR
            /\ last.seen_before.any_ref /\ StoredReference(last))
        => ~(StoredReference(last')
              /\ last'.call.x_ref = last.call.x_ref) ]_vars

\* C29: packet_count never decreases; a call that completes the active path
\* raises it by one and appends one value to error_history, a call that is
\* gated or raises, and a message that makes no call, leave both as they
\* were, so that packet_count is the number of active calls and of values
\* ever appended (the length of error_history while nothing was truncated).
C29_PacketCountCountsActiveCalls ==
    /\ packet_count >= 0
    /\ packet_count <= 2 * window_size => Len(error_history) = packet_count
    /\ handled > 0
       => /\ packet_count >= last.before.packet_count
          /\ (last.call.made /\ last.call.outcome = "active")
             => /\ packet_count = last.before.packet_count + 1
                /\ error_history # last.before.error_history
          /\ ~(last.call.made /\ last.call.outcome = "active")
             => /\ packet_count = last.before.packet_count
                /\ error_history = last.before.error_history

\* the second active call
C29_Witness ==
    /\ CallMade
    /\ last.call.outcome = "active"
    /\ last.before.packet_count = 1
    /\ packet_count = 2

\* C30: once error_history holds window_size entries it never holds fewer
\* (the truncation of line 76 leaves exactly window_size), so is_converged()
\* is never again False for lack of history; is_converged() returns False
\* on fewer than window_size entries and modifies no filter state.
C30_HistoryStaysDecidable ==
    /\ (last.topic # "none"
        /\ Len(last.before.error_history) >= window_size)
       => Len(error_history) >= window_size
    /\ (CallMade /\ last.call.outcome = "active"
        /\ Len(last.before.error_history) = 2 * window_size)
       => Len(error_history) = window_size
    /\ last.topic = "is_converged"
       => /\ CurrentFilter = last.before
          /\ Len(error_history) < window_size => ~last.result
          /\ last.result = is_converged(error_history)

\* is_converged() called just after a truncation, on exactly window_size
\* entries, and answering from their variance
C30_Witness ==
    /\ last.topic = "is_converged"
    /\ Len(error_history) = window_size
    /\ packet_count > 2 * window_size
    /\ last.result

====
